---- MODULE Spec2Model ----
(***************************************************************************)
(* Model of the Gantt chart engine of src/src/index.ts (class Gantt): task *)
(* resolution (setup_tasks, setupDependencies), refresh and render, the    *)
(* dependent-closure traversal (get_all_dependent_tasks), the view scale   *)
(* (change_view_mode, setup_dates) and the pointer handlers of             *)
(* bind_bar_events and bind_bar_progress.                                  *)
(*                                                                         *)
(* dateUtils, Bar and Arrow are imported by index.ts but are not part of   *)
(* the available sources; their operators below are modelled from the      *)
(* specification's description of these collaborators and are marked so.   *)
(*                                                                         *)
(* Representation.  A point in time is a number of hours (date granularity *)
(* of the model is one hour; years have 365 days).  An id is a sequence of *)
(* characters, so that a comma-separated dependency string can be parsed   *)
(* as the code parses it.  Pixel quantities are integers.                  *)
(***************************************************************************)
EXTENDS Integers, Sequences, FiniteSets, TLC

VARIABLES
    today,          \* value returned by dateUtils.today()
    rawTasks,       \* the task array passed to the constructor / to refresh
    status,         \* outcome of the last call: "ok", "threw_setup", "threw_render", "hung"
    tasks,          \* this.tasks
    dependencyMap,  \* this.dependencyMap
    options,        \* this.options (view_mode, step, column_width)
    ganttStart,     \* this.ganttStart
    ganttEnd,       \* this.ganttEnd
    dates,          \* this.dates
    bars,           \* this.bars: the Bar objects of the current render
    arrows,         \* this.arrows
    drag,           \* closure state of bind_bar_events
    detached,       \* Bar objects of an earlier render still referenced by drag.bars
    gesture,        \* history: geometry at the last pointer-down, last pointer event
    closure,        \* locals of one run of get_all_dependent_tasks
    call,           \* history: the last public call, the options before it, what it logged
    progress        \* closure state of bind_bar_progress and the progress widths

vars == <<today, rawTasks, status, tasks, dependencyMap, options, ganttStart, ganttEnd,
          dates, bars, arrows, drag, detached, gesture, closure, call, progress>>

----------------------------------------------------------------------------
(* Sequences                                                               *)

Range(s) == {s[i] : i \in DOMAIN s}

RECURSIVE FlatMap(_, _)
\* concatenation of Op applied to each element; Op given as a function
FlatMap(f, s) == IF s = <<>> THEN <<>> ELSE f[Head(s)] \o FlatMap(f, Tail(s))

Includes(s, x) == \E i \in DOMAIN s : s[i] = x

NoDuplicates(s) == \A i, j \in DOMAIN s : s[i] = s[j] => i = j

----------------------------------------------------------------------------
(* Ids and JavaScript values                                               *)

\* the value `undefined`, where an id is expected
Undefined == <<"undefined?">>

\* Boolean(id): undefined and the empty string are falsy
TruthyId(id) == id # Undefined /\ id # <<>>

A == <<"A">>
B == <<"B">>
C == <<"C">>
D == <<"D">>
X == <<"X">>

----------------------------------------------------------------------------
(* dateUtils                                                               *)

HoursPerDay == 24
HoursPerYear == 24 * 365

InvalidDate == [ok |-> FALSE, t |-> 0]
Date(t) == [ok |-> TRUE, t |-> t]

\* a raw start/end field of a Task
Absent == [t |-> 0, kind |-> "absent"]
Bad == [t |-> 0, kind |-> "bad"]
Given(t) == [t |-> t, kind |-> "date"]

\* !value, for a raw start/end field: undefined, null and "" are falsy
Falsy(raw) == raw.kind = "absent"

\* dateUtils.parse
parse(raw) == IF raw.kind = "date" THEN Date(raw.t) ELSE InvalidDate

DaysBeforeMonth == <<0, 31, 59, 90, 120, 151, 181, 212, 243, 273, 304, 334, 365>>

MonthOfDay(doy) == CHOOSE m \in 1..12 : DaysBeforeMonth[m] <= doy /\ doy < DaysBeforeMonth[m + 1]

\* calendar-month addition, a day of month past the end of the target month
\* spilling into the following one
AddMonths(t, n) ==
    LET year  == t \div HoursPerYear
        hoy   == t % HoursPerYear
        doy   == hoy \div HoursPerDay
        m     == MonthOfDay(doy)
        dom   == doy - DaysBeforeMonth[m]
        total == year * 12 + (m - 1) + n
    IN  (total \div 12) * HoursPerYear
        + (DaysBeforeMonth[(total % 12) + 1] + dom) * HoursPerDay
        + (hoy % HoursPerDay)

\* dateUtils.add
add(d, n, unit) ==
    IF ~d.ok THEN InvalidDate
    ELSE CASE unit = "hour"  -> Date(d.t + n)
           [] unit = "day"   -> Date(d.t + n * HoursPerDay)
           [] unit = "month" -> Date(AddMonths(d.t, n))
           [] unit = "year"  -> Date(d.t + n * HoursPerYear)

\* dateUtils.start_of
start_of(d, unit) ==
    IF ~d.ok THEN InvalidDate
    ELSE CASE unit = "day"  -> Date(d.t - (d.t % HoursPerDay))
           [] unit = "year" -> Date(d.t - (d.t % HoursPerYear))

\* dateUtils.diff(a, b, 'year') > n; a comparison with an invalid date is false
DiffYearsExceeds(a, b, n) == a.ok /\ b.ok /\ (a.t - b.t) > n * HoursPerYear

\* dateUtils.diff(a, b, 'hour')
DiffHours(a, b) == a.t - b.t

\* dateUtils.get_date_values(d).slice(3).every((v) => v === 0)
TimeOfDayIsZero(d) == d.ok /\ d.t % HoursPerDay = 0

\* a < b on dates; a comparison with an invalid date is false
DateLess(a, b) == a.ok /\ b.ok /\ a.t < b.t

----------------------------------------------------------------------------
(* setup_tasks: the dependencies field                                     *)

NoDeps == [kind |-> "absent", val |-> <<>>]
DepString(chars) == [kind |-> "string", val |-> chars]
DepList(ids) == [kind |-> "list", val |-> ids]
DepNumber == [kind |-> "number", val |-> <<>>]

RECURSIVE SplitComma(_, _)
\* String.prototype.split(','), `cur` the piece being read
SplitComma(s, cur) ==
    IF s = <<>> THEN <<cur>>
    ELSE IF Head(s) = "," THEN <<cur>> \o SplitComma(Tail(s), <<>>)
    ELSE SplitComma(Tail(s), Append(cur, Head(s)))

RECURSIVE TrimLeft(_)
TrimLeft(s) == IF s # <<>> /\ Head(s) = " " THEN TrimLeft(Tail(s)) ELSE s

RECURSIVE TrimRight(_)
TrimRight(s) ==
    IF s # <<>> /\ s[Len(s)] = " " THEN TrimRight(SubSeq(s, 1, Len(s) - 1)) ELSE s

\* String.prototype.trim
Trim(s) == TrimRight(TrimLeft(s))

\* .split(',').map((d) => d.trim()).filter((d) => d)
ParseDependencyString(chars) ==
    LET pieces == SplitComma(chars, <<>>)
        trimmed == [i \in DOMAIN pieces |-> Trim(pieces[i])]
    IN  SelectSeq(trimmed, LAMBDA p : p # <<>>)

\* the local `dependencies` is initialised to [] and an array is truthy
LocalDependenciesTruthy == TRUE

\* the value stored in resolvedTask.dependencies: a list, or the raw
\* field itself (undefined, a number) when that is not a string
ResolveDependencies(task) ==
    IF task.dependencies.kind = "string"
    THEN DepList(ParseDependencyString(task.dependencies.val))
    ELSE IF LocalDependenciesTruthy THEN task.dependencies
    ELSE DepList(<<>>)

----------------------------------------------------------------------------
(* setup_tasks: dates                                                      *)

TooLongYears == 10

RepairSpanDays == 2

AllDayBumpHours == 24

\* both bounds missing
RepairBoth(now) == [s |-> now, e |-> add(now, RepairSpanDays, "day")]

\* only the end given
RepairStart(endResolved) == add(endResolved, -RepairSpanDays, "day")

\* only the start given
RepairEnd(startResolved) == add(startResolved, RepairSpanDays, "day")

\* an end without time of day is the whole last day
BumpAllDay_Never(endResolved) == endResolved

BumpAllDay(endResolved) ==
    IF TimeOfDayIsZero(endResolved) THEN add(endResolved, AllDayBumpHours, "hour")
    ELSE endResolved

RowChar == <<"1", "2", "3", "4", "5", "6">>

\* generateId: name plus a pseudo-random suffix, here a suffix per row
generateId(i) == <<"_", RowChar[i]>>

\* the callback of tasks.map in setup_tasks
ResolveTask(task, i, now) ==
    LET s0   == parse(task.start)
        e0   == parse(task.end)
        end1 == IF DiffYearsExceeds(e0, s0, TooLongYears) THEN Absent ELSE task.end
        noS  == Falsy(task.start)
        noE  == Falsy(end1)
        s1   == IF noS /\ noE THEN RepairBoth(now).s ELSE s0
        e1   == IF noS /\ noE THEN RepairBoth(now).e ELSE e0
        s2   == IF noS /\ ~noE THEN RepairStart(e1) ELSE s1
        e2   == IF ~noS /\ noE THEN RepairEnd(s2) ELSE e1
        e3   == BumpAllDay(e2)
    IN  [id            |-> IF task.id = <<>> THEN generateId(i) ELSE task.id,
         dependencies  |-> ResolveDependencies(task),
         endResolved   |-> e3,
         startResolved |-> s2,
         start         |-> task.start,
         end           |-> end1,
         indexResolved |-> i - 1,
         invalid       |-> noS \/ noE]

\* tasks.map(...)
ResolveAll(raw, now) == [i \in DOMAIN raw |-> ResolveTask(raw[i], i, now)]

----------------------------------------------------------------------------
(* setupDependencies                                                       *)

EmptyMap == [k \in {} |-> <<>>]

\* this.dependencyMap = {}
FreshMap == EmptyMap

\* this.dependencyMap[d] = this.dependencyMap[d] || []; this.dependencyMap[d].push(id)
MapPush(m, d, id) ==
    [k \in DOMAIN m \cup {d} |->
        IF k = d THEN (IF d \in DOMAIN m THEN m[d] ELSE <<>>) \o <<id>> ELSE m[k]]

RECURSIVE PushEach(_, _, _)
\* t.dependencies.forEach((d) => ...)
PushEach(m, deps, id) ==
    IF deps = <<>> THEN m ELSE PushEach(MapPush(m, Head(deps), id), Tail(deps), id)

RECURSIVE ForEachTask(_, _)
\* this.tasks.forEach((t) => ...): forEach of a dependencies value that is
\* no array is a TypeError, which leaves the map as built so far
ForEachTask(acc, ts) ==
    IF ts = <<>> THEN acc
    ELSE IF Head(ts).dependencies.kind # "list" THEN [map |-> acc.map, threw |-> TRUE]
    ELSE ForEachTask([map |-> PushEach(acc.map, Head(ts).dependencies.val, Head(ts).id),
                      threw |-> FALSE], Tail(ts))

setupDependencies(ts) == ForEachTask([map |-> FreshMap, threw |-> FALSE], ts)

SetupResult(resolved, deps) == [tasks |-> resolved, map |-> deps.map, threw |-> deps.threw]

SetupResolved(resolved) == SetupResult(resolved, setupDependencies(resolved))

\* setup_tasks: [tasks, map, threw]
setup_tasks(raw, now) == SetupResolved(ResolveAll(raw, now))

----------------------------------------------------------------------------
(* update_view_scale, setup_gantt_dates                                    *)

DefaultOptions == [view_mode |-> "Day", step |-> 24, column_width |-> 30]

update_view_scale(opts, mode) ==
    LET o == [opts EXCEPT !.view_mode = mode]
    IN  CASE mode = "Quarter Day" -> [o EXCEPT !.step = 24 \div 4, !.column_width = 38]
          [] mode = "Half Day"    -> [o EXCEPT !.step = 24 \div 2, !.column_width = 38]
          [] mode = "Day"         -> [o EXCEPT !.step = 24, !.column_width = 38]
          [] mode = "Week"        -> [o EXCEPT !.step = 24 * 7, !.column_width = 140]
          [] mode = "Month"       -> [o EXCEPT !.step = 24 * 30, !.column_width = 120]
          [] mode = "Year"        -> [o EXCEPT !.step = 24 * 365, !.column_width = 120]
          [] OTHER                -> o

\* the default case of the switch: console.error, once per call
Logged(mode) ==
    IF mode \in {"Quarter Day", "Half Day", "Day", "Week", "Month", "Year"} THEN <<>>
    ELSE <<mode>>

\* view_is
view_is(opts, modes) == opts.view_mode \in modes

NullDate == [ok |-> FALSE, t |-> -1]

RECURSIVE OldestStart(_, _)
OldestStart(cur, ts) ==
    IF ts = <<>> THEN cur
    ELSE LET s == Head(ts).startResolved
         IN  OldestStart(IF cur = NullDate \/ DateLess(s, cur) THEN s ELSE cur, Tail(ts))

RECURSIVE LatestEnd(_, _)
LatestEnd(cur, ts) ==
    IF ts = <<>> THEN cur
    ELSE LET e == Head(ts).endResolved
         IN  LatestEnd(IF cur = NullDate \/ DateLess(cur, e) THEN e ELSE cur, Tail(ts))

setup_gantt_dates(ts, opts) ==
    LET s == start_of(OldestStart(NullDate, ts), "day")
        e == start_of(LatestEnd(NullDate, ts), "day")
    IN  IF view_is(opts, {"Quarter Day", "Half Day"})
        THEN [start |-> add(s, -7, "day"), end |-> add(e, 7, "day")]
        ELSE IF view_is(opts, {"Month"})
        THEN [start |-> start_of(s, "year"), end |-> add(e, 1, "year")]
        ELSE IF view_is(opts, {"Year"})
        THEN [start |-> add(s, -2, "year"), end |-> add(e, 2, "year")]
        ELSE [start |-> add(s, -1, "month"), end |-> add(e, 1, "month")]

\* setup_date_values: the advance from one column boundary to the next
NextDate_StepHours(opts, cur) == add(cur, opts.step, "hour")

NextDate(opts, cur) ==
    IF view_is(opts, {"Year"}) THEN add(cur, 1, "year")
    ELSE IF view_is(opts, {"Month"}) THEN add(cur, 1, "month")
    ELSE add(cur, opts.step, "hour")

\* one pass of the while loop of setup_date_values once the first date is
\* pushed; currentDate is the date pushed last: the test currentDate <
\* ganttEnd, then the advance and the push.  A pass after the loop ended
\* changes nothing.
DatePass(opts, gEnd, acc) ==
    IF DateLess(acc[Len(acc)], gEnd)
    THEN Append(acc, NextDate(opts, acc[Len(acc)]))
    ELSE acc

DatePass4(opts, gEnd, acc) ==
    DatePass(opts, gEnd, DatePass(opts, gEnd, DatePass(opts, gEnd, DatePass(opts, gEnd, acc))))

DatePass16(opts, gEnd, acc) ==
    DatePass4(opts, gEnd, DatePass4(opts, gEnd, DatePass4(opts, gEnd,
        DatePass4(opts, gEnd, acc))))

RECURSIVE DateValues(_, _, _)
\* the while loop, sixteen passes to a level of the recursion
DateValues(opts, gEnd, acc) ==
    IF DateLess(acc[Len(acc)], gEnd)
    THEN DateValues(opts, gEnd, DatePass16(opts, gEnd, acc))
    ELSE acc

\* setup_date_values: the first date pushed is a clone of ganttStart
setup_date_values(opts, g) == DateValues(opts, g.end, <<g.start>>)

----------------------------------------------------------------------------
(* render: make_bars, make_arrows, map_arrows_on_bars                      *)

\* new Bar(gantt, task): the bar's place on the time scale; the fields
\* ox, owidth and finaldx of $bar are unset until a pointer-down
NewBar(task, opts, gStart) ==
    LET okDates == task.startResolved.ok /\ task.endResolved.ok /\ gStart.ok
    IN  [x       |-> IF okDates
                     THEN (DiffHours(task.startResolved, gStart) * opts.column_width) \div opts.step
                     ELSE 0,
         id      |-> task.id,
         width   |-> IF okDates
                     THEN (DiffHours(task.endResolved, task.startResolved) * opts.column_width)
                              \div opts.step
                     ELSE 0,
         ox      |-> 0,
         owidth  |-> 0,
         finaldx |-> 0]

make_bars(ts, opts, gStart) == [i \in DOMAIN ts |-> NewBar(ts[i], opts, gStart)]

\* get_task(id): the first task with that id, 0 for undefined
get_task(ts, id) ==
    IF \E i \in DOMAIN ts : ts[i].id = id
    THEN CHOOSE i \in DOMAIN ts : ts[i].id = id /\ \A j \in 1..(i - 1) : ts[j].id # id
    ELSE 0

\* task._index: a ResolvedTask carries indexResolved and no _index, so the
\* subscript is undefined and this.bars[undefined] is undefined (0)
BarAtUnderscoreIndex(bs, task) == 0

\* new Arrow(gantt, from_task, to_task)
NewArrow(from, to) == [from_task |-> from, to_task |-> to]

\* the arrows of one task: task.dependencies.map(...).filter(Boolean)
ArrowsOfTask(ts, bs, task) ==
    LET deps  == task.dependencies.val
        found == SelectSeq(deps, LAMBDA d : get_task(ts, d) # 0)
    IN  [k \in DOMAIN found |->
            NewArrow(BarAtUnderscoreIndex(bs, ts[get_task(ts, found[k])]),
                     BarAtUnderscoreIndex(bs, task))]

\* task.dependencies.map(...) of a value that is no array is a TypeError
make_arrows_throws(ts) == \E i \in DOMAIN ts : ts[i].dependencies.kind # "list"

RECURSIVE ConcatArrows(_, _, _)
\* for (const task of this.tasks): this.arrows as left by a TypeError, if any
ConcatArrows(ts, bs, rest) ==
    IF rest = <<>> \/ Head(rest).dependencies.kind # "list" THEN <<>>
    ELSE ArrowsOfTask(ts, bs, Head(rest)) \o ConcatArrows(ts, bs, Tail(rest))

make_arrows(ts, bs) == ConcatArrows(ts, bs, ts)

\* map_arrows_on_bars reads arrow.from_task.task.id and arrow.to_task.task.id
\* for every bar and arrow: a TypeError when the endpoint read is undefined
map_arrows_on_bars_throws(bs, as) ==
    \E b \in DOMAIN bs : \E a \in DOMAIN as :
        \/ as[a].from_task = 0
        \/ bs[as[a].from_task].id # bs[b].id /\ as[a].to_task = 0

\* render(): make_bars, make_arrows, map_arrows_on_bars, after setup_dates()
RenderArrows(ts, o, g, bs, as) ==
    [options |-> o, ganttStart |-> g.start, ganttEnd |-> g.end,
     dates |-> setup_date_values(o, g), bars |-> bs, arrows |-> as,
     threw |-> make_arrows_throws(ts) \/ map_arrows_on_bars_throws(bs, as)]

RenderBars(ts, o, g, bs) == RenderArrows(ts, o, g, bs, make_arrows(ts, bs))

render(ts, o, g) == RenderBars(ts, o, g, make_bars(ts, o, g.start))

\* setup_dates(), then render()
SetupDatesAndRender(ts, o) == render(ts, o, setup_gantt_dates(ts, o))

\* change_view_mode(mode): update_view_scale, setup_dates, render
change_view_mode(ts, opts, mode) == SetupDatesAndRender(ts, update_view_scale(opts, mode))

----------------------------------------------------------------------------
(* get_all_dependent_tasks                                                 *)

\* acc.concat(this.dependencyMap[curr]): concat of undefined appends undefined
ConcatEntry(map, curr) == IF curr \in DOMAIN map THEN map[curr] ELSE <<Undefined>>

\* to_process.reduce((acc, curr) => acc.concat(this.dependencyMap[curr]), [])
ClosureDeps(map, to_process) ==
    FlatMap([k \in Range(to_process) |-> ConcatEntry(map, k)], to_process)

\* deps.filter((d) => !to_process.includes(d))
ClosureFrontier(to_process, deps) == SelectSeq(deps, LAMBDA d : ~Includes(to_process, d))

\* out.filter(Boolean)
ClosureResult(out) == SelectSeq(out, TruthyId)

RECURSIVE ClosureLoop(_, _, _, _)
\* the while loop; the set of ids of the next frontier is a function of the
\* set of ids of this one, so a set seen before means the loop never exits
ClosureLoop(map, out, to_process, seen) ==
    IF to_process = <<>> THEN [out |-> ClosureResult(out), diverges |-> FALSE]
    ELSE IF Range(to_process) \in seen THEN [out |-> <<>>, diverges |-> TRUE]
    ELSE LET deps == ClosureDeps(map, to_process)
         IN  ClosureLoop(map, out \o deps, ClosureFrontier(to_process, deps),
                         seen \cup {Range(to_process)})

get_all_dependent_tasks(map, task_id) == ClosureLoop(map, <<>>, <<task_id>>, {})

----------------------------------------------------------------------------
(* bind_bar_events                                                         *)

NullId == <<"null?">>

NullBar == [x |-> 0, id |-> <<>>, width |-> 0, ox |-> 0, owidth |-> 0, finaldx |-> 0]

InitDrag == [bars |-> <<>>, is_dragging |-> FALSE, is_resizing_left |-> FALSE,
             is_resizing_right |-> FALSE, x_on_start |-> 0, parent_bar_id |-> NullId,
             stale |-> FALSE, bar_being_dragged |-> NullId]

\* moved: whether a pointer-move was handled since the last pointer-down;
\* target: the element of the last pointer-down; away: whether a pointer-move
\* since then had a nonzero snapped delta; released: whether a pointer-up
\* followed the last pointer-down; repeat: whether the last pointer-up came
\* with released set; previous: whether the last pointer event moved or
\* committed a Bar object that is not in this.bars
InitGesture == [start |-> <<>>, downs |-> 0, last |-> "none", dx |-> 0, committed |-> <<>>,
                moved |-> FALSE, target |-> "none", away |-> FALSE, released |-> TRUE,
                repeat |-> FALSE, previous |-> FALSE]

action_in_progress(d) == d.is_dragging \/ d.is_resizing_left \/ d.is_resizing_right

\* get_bar(id): the first bar of this.bars with that task id, 0 for undefined
get_bar(bs, id) ==
    IF \E i \in DOMAIN bs : bs[i].id = id
    THEN CHOOSE i \in DOMAIN bs : bs[i].id = id /\ \A j \in 1..(i - 1) : bs[j].id # id
    ELSE 0

\* a % b of JavaScript: the sign of the dividend
JsRem(a, b) == IF a >= 0 THEN a % b ELSE -((-a) % b)

SnapTo(dx, unit) ==
    LET rem == JsRem(dx, unit)
    IN  dx - rem + (IF 2 * rem < unit THEN 0 ELSE unit)

\* get_snap_position(dx); rem < unit / 2 is compared as 2 * rem < unit
get_snap_position(opts, dx) ==
    IF view_is(opts, {"Week"})
    THEN SnapTo(dx, opts.column_width \div 7)
    ELSE IF view_is(opts, {"Month"})
    THEN SnapTo(dx, opts.column_width \div 30)
    ELSE SnapTo(dx, opts.column_width)

\* bar.update_bar_position({ x, width }): sets the attributes given
update_bar_position(bar, hasX, x, hasWidth, width) ==
    [bar EXCEPT !.x = IF hasX THEN x ELSE @, !.width = IF hasWidth THEN width ELSE @]

\* the snapshot of the pointer-down handler for one bar
SnapshotBar(bar) == [bar EXCEPT !.ox = bar.x, !.owidth = bar.width, !.finaldx = 0]

RECURSIVE SnapshotEach(_, _)
\* bars.forEach(...) of the pointer-down handler; destructuring an undefined
\* entry is a TypeError that ends the handler
SnapshotEach(objs, refs) ==
    IF refs = <<>> \/ Head(refs) = 0 THEN objs
    ELSE SnapshotEach([objs EXCEPT ![Head(refs)] = SnapshotBar(@)], Tail(refs))

\* the right-handle branch applied to every captured bar
ResizeRight_AllBars(d, bar, f) == update_bar_position(bar, FALSE, 0, TRUE, bar.owidth + f)

ResizeRight(d, bar, f) ==
    IF d.parent_bar_id = bar.id
    THEN update_bar_position(bar, FALSE, 0, TRUE, bar.owidth + f)
    ELSE bar

\* the pointer-move handler adding the snapped delta to the geometry the
\* previous pointer-move left
MoveBar_Incremental(d, opts, bar0, dx) ==
    LET f   == get_snap_position(opts, dx)
        bar == [bar0 EXCEPT !.finaldx = f]
    IN  IF d.is_resizing_left
        THEN IF d.parent_bar_id = bar.id
             THEN update_bar_position(bar, TRUE, bar.x + f, TRUE, bar.width - f)
             ELSE update_bar_position(bar, TRUE, bar.x + f, FALSE, 0)
        ELSE IF d.is_resizing_right THEN ResizeRight(d, bar, f)
        ELSE IF d.is_dragging THEN update_bar_position(bar, TRUE, bar.x + f, FALSE, 0)
        ELSE bar

\* the body of bars.forEach in the pointer-move handler
MoveBar(d, opts, bar0, dx) ==
    LET f   == get_snap_position(opts, dx)
        bar == [bar0 EXCEPT !.finaldx = f]
    IN  IF d.is_resizing_left
        THEN IF d.parent_bar_id = bar.id
             THEN update_bar_position(bar, TRUE, bar.ox + f, TRUE, bar.owidth - f)
             ELSE update_bar_position(bar, TRUE, bar.ox + f, FALSE, 0)
        ELSE IF d.is_resizing_right THEN ResizeRight(d, bar, f)
        ELSE IF d.is_dragging THEN update_bar_position(bar, TRUE, bar.ox + f, FALSE, 0)
        ELSE bar

RECURSIVE MoveEach(_, _, _, _, _)
MoveEach(d, opts, objs, refs, dx) ==
    IF refs = <<>> \/ Head(refs) = 0 THEN objs
    ELSE MoveEach(d, opts, [objs EXCEPT ![Head(refs)] = MoveBar(d, opts, @, dx)],
                  Tail(refs), dx)

RECURSIVE CommitEach(_, _)
\* bars.forEach of the svg pointer-up handler: the ids date_changed is called for
CommitEach(objs, refs) ==
    IF refs = <<>> \/ Head(refs) = 0 THEN <<>>
    ELSE (IF objs[Head(refs)].finaldx = 0 THEN <<>> ELSE <<objs[Head(refs)].id>>)
         \o CommitEach(objs, Tail(refs))

\* the Bar objects drag.bars refers to
Objs == IF drag.stale THEN detached ELSE bars

Geometry(objs) == [i \in DOMAIN objs |-> [x |-> objs[i].x, width |-> objs[i].width]]

----------------------------------------------------------------------------
(* bind_bar_progress                                                       *)

\* the width of $bar_progress as a new Bar draws it: the share of the bar
\* that is done, here a half
ProgressWidth(bar) == bar.width \div 2

ProgressWidths(bs) == [i \in DOMAIN bs |-> ProgressWidth(bs[i])]

\* bar: the Bar the closure refers to (0 for null) and whether it is one of
\* an earlier render; width, owidth, min_dx, max_dx, finaldx: the fields of
\* its $bar_progress; widths: the progress widths of the bars of the current
\* render; changed: whether the last pointer-up called progress_changed;
\* called: whether progress_changed was called since the last pointer-down on
\* a progress handle; again: whether the last pointer-up called it with
\* called set
InitProgress(bs) ==
    [width |-> 0, owidth |-> 0, finaldx |-> 0, x_on_start |-> 0, stale |-> FALSE,
     bar |-> 0, is_resizing |-> FALSE, min_dx |-> 0, max_dx |-> 0,
     widths |-> ProgressWidths(bs), changed |-> FALSE, called |-> FALSE,
     again |-> FALSE]

\* mousedown on '.handle.progress' of bar b
ProgressDown(p, bs, b, offsetX) ==
    [p EXCEPT !.is_resizing = TRUE, !.x_on_start = offsetX, !.bar = b, !.stale = FALSE,
              !.finaldx = 0, !.width = p.widths[b], !.owidth = p.widths[b],
              !.min_dx = -p.widths[b], !.max_dx = bs[b].width - p.widths[b],
              !.called = FALSE]

\* if (dx > max_dx) dx = max_dx; if (dx < min_dx) dx = min_dx
ClampDx(p, dx) ==
    LET d1 == IF dx > p.max_dx THEN p.max_dx ELSE dx
    IN  IF d1 < p.min_dx THEN p.min_dx ELSE d1

\* the mousemove handler of bind_bar_progress
ProgressMoved(p, dx) ==
    [p EXCEPT !.width = p.owidth + dx, !.finaldx = dx,
              !.widths = IF p.stale THEN @ ELSE [@ EXCEPT ![p.bar] = p.owidth + dx]]

ProgressMove(p, offsetX) ==
    IF p.is_resizing THEN ProgressMoved(p, ClampDx(p, offsetX - p.x_on_start)) ELSE p

\* the svg mouseup handler of bind_bar_progress
ProgressUp(p) ==
    [p EXCEPT !.is_resizing = FALSE, !.changed = (p.bar # 0 /\ p.finaldx # 0),
              !.called = @ \/ (p.bar # 0 /\ p.finaldx # 0),
              !.again = p.called /\ p.bar # 0 /\ p.finaldx # 0]

\* make_bars: new Bar objects, the closure still referring to the old one
ProgressRendered(p, bs) == [p EXCEPT !.widths = ProgressWidths(bs), !.stale = (p.bar # 0)]

----------------------------------------------------------------------------
(* Inputs                                                                  *)

\* the most pointer-downs in one behaviour
MaxGestures == 1

\* the longest `out` an iteration of get_all_dependent_tasks still extends
MaxOut == 8

DayAt(n) == HoursPerYear + n * HoursPerDay

Row(id, startDay, endDay, deps) ==
    [id |-> id, dependencies |-> deps,
     start |-> Given(DayAt(startDay)), end |-> Given(DayAt(endDay))]

RowA(deps) == Row(A, 40, 41, deps)
RowB(deps) == Row(B, 42, 43, deps)
RowC(deps) == Row(C, 44, 45, deps)
RowD(deps) == Row(D, 46, 47, deps)

\* no dependencies: the chart can be constructed
TasksPlain == <<RowA(DepString(<<>>)), RowB(DepList(<<>>))>>
\* a chain: B depends on A, C on B
TasksChain == <<RowA(DepString(<<>>)), RowB(DepString(<<"A">>)), RowC(DepString(<<" ", "B", " ">>))>>
\* C and B depend on A; the last task has no dependencies field
TasksNoField == <<RowC(DepString(<<"A">>)), RowB(DepList(<<A>>)), RowD(NoDeps)>>
\* A and B depend on each other
TasksCycle == <<RowA(DepList(<<B>>)), RowB(DepString(<<"A">>))>>
\* B and C depend on A, D on B and on C
TasksDiamond == <<RowA(DepList(<<>>)), RowB(DepList(<<A>>)), RowC(DepList(<<A>>)),
                  RowD(DepList(<<B, C>>))>>

InitTaskSets == {TasksPlain}

TaskSets == {TasksPlain, TasksChain, TasksNoField, TasksCycle}

Elements == {"bar-wrapper", "left", "right", "progress"}

DownOffsets == {100}

MoveOffsets == {62, 81, 100, 119}

InitToday == Date(DayAt(50))

----------------------------------------------------------------------------
(* The constructor                                                         *)

\* seen: the sets of ids the loop began an iteration with
InitClosure == [to_process |-> <<>>, out |-> <<>>, seen |-> {}, task_id |-> NullId,
                pc |-> "idle"]

\* the record of a public call: what update_view_scale(mode) logs
CallOf(op, mode, before) ==
    [mode |-> mode, op |-> op, before |-> before, logged |-> Logged(mode)]

\* the chart showing the render r of the resolved tasks s, no gesture begun
Rendered(ts, s, r, st) ==
    /\ today = InitToday
    /\ rawTasks = ts
    /\ status = st
    /\ tasks = s.tasks
    /\ dependencyMap = s.map
    /\ options = r.options
    /\ ganttStart = r.ganttStart
    /\ ganttEnd = r.ganttEnd
    /\ dates = r.dates
    /\ bars = r.bars
    /\ arrows = r.arrows
    /\ drag = InitDrag
    /\ detached = <<>>
    /\ gesture = InitGesture
    /\ closure = InitClosure
    /\ call = CallOf(IF ts \in InitTaskSets THEN "new" ELSE "refresh",
                     DefaultOptions.view_mode, DefaultOptions)
    /\ progress = InitProgress(r.bars)

\* the state after new Gantt(wrapper, ts, options) returned: setup_options,
\* setup_tasks, change_view_mode and bind_events all completed
Constructed(ts, s, r) == ~s.threw /\ ~r.threw /\ Rendered(ts, s, r, "ok")

Init ==
    \E ts \in InitTaskSets :
        \E s \in {setup_tasks(ts, InitToday)} :
            \E r \in {change_view_mode(s.tasks, DefaultOptions, DefaultOptions.view_mode)} :
                Constructed(ts, s, r)

----------------------------------------------------------------------------
(* refresh                                                                 *)

\* the Bar objects of the render being replaced that drag.bars still refers to
Detach(bs, refs) == [i \in DOMAIN bs |-> IF i \in Range(refs) THEN bs[i] ELSE NullBar]

\* the chart after update_view_scale, setup_dates and render: new bars, the
\* closures of the pointer handlers still referring to the old ones
Replaced(r) ==
    /\ status' = IF r.threw THEN "threw_render" ELSE "ok"
    /\ options' = r.options
    /\ ganttStart' = r.ganttStart
    /\ ganttEnd' = r.ganttEnd
    /\ dates' = r.dates
    /\ bars' = r.bars
    /\ arrows' = r.arrows
    /\ progress' = ProgressRendered(progress, r.bars)
    /\ IF drag.stale \/ drag.bars = <<>>
       THEN UNCHANGED <<drag, detached>>
       ELSE /\ drag' = [drag EXCEPT !.stale = TRUE]
            /\ detached' = Detach(bars, drag.bars)

\* refresh(ts): setup_tasks, then change_view_mode(); an exception of
\* setupDependencies leaves the previous render in place, one of render
\* (map_arrows_on_bars) leaves the new bars in place
Refreshed(ts, now, s, r) ==
    /\ status # "hung"
    /\ today' = now
    /\ rawTasks' = ts
    /\ tasks' = s.tasks
    /\ dependencyMap' = s.map
    /\ IF s.threw
       THEN /\ status' = "threw_setup"
            /\ call' = [CallOf("refresh", options.view_mode, options) EXCEPT !.logged = <<>>]
            /\ UNCHANGED <<options, ganttStart, ganttEnd, dates, bars, arrows, drag,
                           detached, progress>>
       ELSE /\ call' = CallOf("refresh", options.view_mode, options)
            /\ Replaced(r)
    /\ UNCHANGED <<gesture, closure>>

Refresh(ts, now) ==
    \E s \in {setup_tasks(ts, now)} :
        \E r \in {IF s.threw THEN s ELSE change_view_mode(s.tasks, options, options.view_mode)} :
            Refreshed(ts, now, s, r)

\* change_view_mode(mode), the public operation
ChangeViewMode(mode) ==
    \E r \in {change_view_mode(tasks, options, mode)} :
        /\ status # "hung"
        /\ call' = CallOf("change_view_mode", mode, options)
        /\ Replaced(r)
        /\ UNCHANGED <<today, rawTasks, tasks, dependencyMap, gesture, closure>>

----------------------------------------------------------------------------
(* Pointer events                                                          *)

\* mousedown on '.bar-wrapper, .handle' of bar b of the rendered chart; a
\* get_all_dependent_tasks that never returns freezes the page
PointerDown(pd, el, parent, flagged, r, refs) ==
    /\ status # "hung"
    /\ IF r.diverges
       THEN /\ status' = "hung"
            /\ drag' = flagged
            /\ UNCHANGED <<bars, detached, progress>>
            /\ gesture' = [gesture EXCEPT !.downs = @ + 1, !.last = "down"]
       ELSE /\ status' = status
            /\ drag' = [flagged EXCEPT !.bars = refs, !.stale = FALSE,
                                       !.bar_being_dragged = parent]
            /\ bars' = SnapshotEach(bars, refs)
            /\ detached' = <<>>
            /\ progress' = [pd EXCEPT !.changed = FALSE, !.again = FALSE]
            /\ gesture' = [start |-> Geometry(bars), downs |-> gesture.downs + 1,
                           last |-> "down", dx |-> 0, committed |-> <<>>,
                           moved |-> FALSE, target |-> el, away |-> FALSE,
                           released |-> FALSE, repeat |-> FALSE, previous |-> FALSE]
    /\ UNCHANGED <<today, rawTasks, tasks, dependencyMap, options,
                   ganttStart, ganttEnd, dates, arrows, closure, call>>

\* [parent_bar_id, ...this.get_all_dependent_tasks(parent_bar_id)].map(get_bar)
CapturedBars(bs, parent, r) ==
    [i \in 1..(1 + Len(r.out)) |-> get_bar(bs, (<<parent>> \o r.out)[i])]

\* the mousedown listener of bind_bar_events, then, on a progress handle,
\* the one of bind_bar_progress
MouseDown(b, el, offsetX) ==
    \E r \in {get_all_dependent_tasks(dependencyMap, bars[b].id)} :
        PointerDown(IF el = "progress" THEN ProgressDown(progress, bars, b, offsetX)
                    ELSE progress,
                    el, bars[b].id,
                    [drag EXCEPT
                        !.is_resizing_left = IF el = "left" THEN TRUE ELSE @,
                        !.is_resizing_right = IF el = "right" THEN TRUE ELSE @,
                        !.is_dragging = IF el = "bar-wrapper" THEN TRUE ELSE @,
                        !.x_on_start = offsetX,
                        !.parent_bar_id = bars[b].id],
                    r, CapturedBars(bars, bars[b].id, r))

\* mousemove on the svg: the listener of bind_bar_events, then the one of
\* bind_bar_progress; a move both return from at once is left out
MouseMove(offsetX) ==
    LET dx == offsetX - drag.x_on_start
    IN  /\ status # "hung"
        /\ action_in_progress(drag) \/ progress.is_resizing
        /\ IF ~action_in_progress(drag)
           THEN UNCHANGED <<bars, detached>>
           ELSE IF drag.stale
           THEN /\ detached' = MoveEach(drag, options, detached, drag.bars, dx)
                /\ UNCHANGED bars
           ELSE /\ bars' = MoveEach(drag, options, bars, drag.bars, dx)
                /\ UNCHANGED detached
        /\ progress' = ProgressMove(progress, offsetX)
        /\ gesture' = [gesture EXCEPT
                          !.last = "move", !.dx = dx, !.moved = TRUE,
                          !.away = @ \/ (action_in_progress(drag)
                                            /\ get_snap_position(options, dx) # 0),
                          !.previous = (detached' # detached)]
        /\ UNCHANGED <<today, rawTasks, status, tasks, dependencyMap, options,
                       ganttStart, ganttEnd, dates, arrows, drag, closure, call>>

\* the mouseup listener of document
DocumentMouseUp(d) ==
    [d EXCEPT !.is_dragging = FALSE, !.is_resizing_left = FALSE, !.is_resizing_right = FALSE]

\* mouseup inside the svg: the svg listeners of bind_bar_events and of
\* bind_bar_progress, then the listener of document
MouseUpSvg ==
    /\ status # "hung"
    /\ drag' = DocumentMouseUp([drag EXCEPT !.bar_being_dragged = NullId])
    /\ progress' = ProgressUp(progress)
    /\ gesture' = [gesture EXCEPT
                      !.last = "up", !.committed = CommitEach(Objs, drag.bars),
                      !.released = TRUE, !.repeat = gesture.released,
                      !.previous = (drag.stale /\ CommitEach(Objs, drag.bars) # <<>>)]
    /\ UNCHANGED <<today, rawTasks, status, tasks, dependencyMap, options,
                   ganttStart, ganttEnd, dates, bars, arrows, detached, closure, call>>

\* mouseup outside the svg: the listener of document alone
MouseUpOutside ==
    /\ status # "hung"
    /\ drag' = DocumentMouseUp(drag)
    /\ progress' = [progress EXCEPT !.changed = FALSE, !.again = FALSE]
    /\ gesture' = [gesture EXCEPT
                      !.last = "up_outside", !.committed = <<>>,
                      !.released = TRUE, !.repeat = gesture.released,
                      !.previous = FALSE]
    /\ UNCHANGED <<today, rawTasks, status, tasks, dependencyMap, options,
                   ganttStart, ganttEnd, dates, bars, arrows, detached, closure, call>>

\* setup_tasks of refresh(ts) for the task sets of TaskSets
TaskSetup == [ts \in TaskSets |-> setup_tasks(ts, InitToday)]

\* this.options as the constructor leaves them
InitOptions == update_view_scale(DefaultOptions, DefaultOptions.view_mode)

\* change_view_mode() of refresh(ts) under the options of the constructor
TaskRender ==
    [ts \in TaskSets |->
        IF TaskSetup[ts].threw THEN TaskSetup[ts]
        ELSE change_view_mode(TaskSetup[ts].tasks, InitOptions, InitOptions.view_mode)]

\* Refresh(ts, InitToday) with the values above, which do not depend on the
\* state, in place of their recomputation
RefreshAny ==
    \E ts \in TaskSets :
        \E r \in {IF options = InitOptions THEN TaskRender[ts]
                  ELSE IF TaskSetup[ts].threw THEN TaskSetup[ts]
                  ELSE change_view_mode(TaskSetup[ts].tasks, options, options.view_mode)} :
            Refreshed(ts, InitToday, TaskSetup[ts], r)

MouseDownAny ==
    /\ gesture.downs < MaxGestures
    /\ \E b \in DOMAIN bars, el \in Elements, o \in DownOffsets : MouseDown(b, el, o)

MouseMoveAny == \E o \in MoveOffsets : MouseMove(o)

Next == RefreshAny \/ MouseDownAny \/ MouseMoveAny \/ MouseUpSvg \/ MouseUpOutside

\* a chart under refreshes and pointer events
Spec == Init /\ [][Next]_vars

----------------------------------------------------------------------------
(* Pointer events alone, pointer-downs without a pointer-up between them   *)
(* and moves past the edges of a bar included                              *)

\* the most pointer-downs in one behaviour of SpecPointer
MaxDowns == 2

PointerDownOffsets == {200}

\* moves of -152, 19 and 133 pixels; a bar of TasksPlain is 76 wide
PointerMoveOffsets == {48, 219, 333}

MouseDownPointer ==
    /\ gesture.downs < MaxDowns
    /\ \E b \in DOMAIN bars, el \in Elements, o \in PointerDownOffsets : MouseDown(b, el, o)

MouseMovePointer == \E o \in PointerMoveOffsets : MouseMove(o)

NextPointer == MouseDownPointer \/ MouseMovePointer \/ MouseUpSvg \/ MouseUpOutside

\* the chart of TasksPlain under pointer events
SpecPointer == Init /\ [][NextPointer]_vars

----------------------------------------------------------------------------
(* change_view_mode and refresh                                            *)

\* the six view modes and one that is none of them
ViewModes == {"Quarter Day", "Half Day", "Day", "Week", "Month", "Year", "Fortnight"}

\* a start that does not parse: the scale has no concrete start
TasksBadStart == <<[RowA(DepList(<<>>)) EXCEPT !.start = Bad], RowB(DepList(<<>>))>>

ViewTaskSets == {TasksPlain, TasksChain, TasksNoField, TasksBadStart}

RefreshView == \E ts \in ViewTaskSets : Refresh(ts, InitToday)

ChangeViewModeAny == \E mode \in ViewModes : ChangeViewMode(mode)

NextView == RefreshView \/ ChangeViewModeAny

\* a chart under refreshes and changes of the view mode
SpecView == Init /\ [][NextView]_vars

----------------------------------------------------------------------------
(* get_all_dependent_tasks, one iteration of its loop at a time            *)

IdOrder == <<A, B, C>>

\* the ids of S as a dependency list
ListOf(S) == SelectSeq(IdOrder, LAMBDA id : id \in S)

GraphRows(da, db, dc) ==
    <<RowA(DepList(ListOf(da))), RowB(DepList(ListOf(db))), RowC(DepList(ListOf(dc)))>>

\* every dependency graph over three tasks, self-references included, the
\* diamond over four and the two-task cycle
ClosureTaskSets ==
    {GraphRows(da, db, dc) : da \in SUBSET {A, B, C}, db \in SUBSET {A, B, C},
                             dc \in SUBSET {A, B, C}}
        \cup {TasksDiamond, TasksCycle}

\* ids get_all_dependent_tasks is called with; X is the id of no task
StartIds == {A, B, C, D, X}

\* the chart after new Gantt(wrapper, TasksPlain) and one refresh(ts) whose
\* setup_tasks returned
InitRefreshed(sets) ==
    \E ts \in sets :
        \E s \in {setup_tasks(ts, InitToday)} :
            \E r \in {change_view_mode(s.tasks, DefaultOptions, DefaultOptions.view_mode)} :
                /\ ~s.threw
                /\ Rendered(ts, s, r, IF r.threw THEN "threw_render" ELSE "ok")

InitClosureSpec == InitRefreshed(ClosureTaskSets)

\* let out = []; let to_process = [task_id]
ClosureCall(id) ==
    /\ closure.pc \in {"idle", "done"}
    /\ closure' = [to_process |-> <<id>>, out |-> <<>>, seen |-> {}, task_id |-> id,
                   pc |-> "loop"]
    /\ UNCHANGED <<today, rawTasks, status, tasks, dependencyMap, options, ganttStart,
                   ganttEnd, dates, bars, arrows, drag, detached, gesture, call, progress>>

\* one pass of while (to_process.length)
ClosureIterate ==
    /\ closure.pc = "loop"
    /\ closure.to_process # <<>>
    /\ Len(closure.out) <= MaxOut
    /\ \E deps \in {ClosureDeps(dependencyMap, closure.to_process)} :
          closure' = [closure EXCEPT
                         !.out = @ \o deps,
                         !.to_process = ClosureFrontier(closure.to_process, deps),
                         !.seen = @ \cup {Range(closure.to_process)}]
    /\ UNCHANGED <<today, rawTasks, status, tasks, dependencyMap, options, ganttStart,
                   ganttEnd, dates, bars, arrows, drag, detached, gesture, call, progress>>

\* return out.filter(Boolean)
ClosureReturn ==
    /\ closure.pc = "loop"
    /\ closure.to_process = <<>>
    /\ closure' = [closure EXCEPT !.pc = "done", !.out = ClosureResult(@)]
    /\ UNCHANGED <<today, rawTasks, status, tasks, dependencyMap, options, ganttStart,
                   ganttEnd, dates, bars, arrows, drag, detached, gesture, call, progress>>

ClosureCallAny == \E id \in StartIds : ClosureCall(id)

NextClosure == ClosureCallAny \/ ClosureIterate \/ ClosureReturn

\* calls of get_all_dependent_tasks on the dependency maps of ClosureTaskSets
SpecClosure == InitClosureSpec /\ [][NextClosure]_vars

----------------------------------------------------------------------------
(* setup_tasks on one task with every kind of start and end                *)

\* an earlier and a later day, each at midnight and at 09:00, a day between
\* them, and a day more than TooLongYears after all of them
ResolveTimes ==
    {DayAt(8), DayAt(8) + 9, DayAt(10), DayAt(12), DayAt(12) + 9,
     DayAt(12) + (TooLongYears + 1) * HoursPerYear}

RawFields == {Absent, Bad} \cup {Given(t) : t \in ResolveTimes}

ResolveTaskSets ==
    {<<[id |-> A, dependencies |-> DepList(<<>>), start |-> s, end |-> e]>> :
        s \in RawFields, e \in RawFields}

\* dateUtils.today(): a day, at midnight or with a time of day
Todays == {InitToday, Date(InitToday.t + 15)}

RefreshResolve == \E ts \in ResolveTaskSets, now \in Todays : Refresh(ts, now)

NextResolve == RefreshResolve

\* refreshes with one task of ResolveTaskSets
SpecResolve == Init /\ [][NextResolve]_vars

----------------------------------------------------------------------------
(* setup_tasks on three tasks with every kind of dependencies field        *)

DepsOfA == {DepString(<<>>), NoDeps, DepList(<<C>>), DepString(<<"B", ",", ",", " ", "C">>)}

DepsOfB == {DepList(<<>>), DepNumber, DepString(<<"A">>), DepList(<<A, X>>)}

DepsOfC == {DepString(<<>>), NoDeps, DepString(<<" ", "A", " ", ",", "B">>), DepList(<<B, B>>)}

SetupTaskSets ==
    {<<RowA(da), RowB(db), RowC(dc)>> : da \in DepsOfA, db \in DepsOfB, dc \in DepsOfC}

RefreshSetup == \E ts \in SetupTaskSets : Refresh(ts, InitToday)

NextSetup == RefreshSetup

\* refreshes with the task sets of SetupTaskSets
SpecSetup == Init /\ [][NextSetup]_vars

----------------------------------------------------------------------------
(* Properties of get_all_dependent_tasks                                   *)

\* the ids listed under the keys S of a dependency map
Successors(map, S) == UNION {Range(map[k]) : k \in S \cap DOMAIN map}

RECURSIVE ReachFrom(_, _, _)
ReachFrom(map, acc, new) ==
    IF new = {} THEN acc
    ELSE LET nxt == Successors(map, new) \ acc
         IN  ReachFrom(map, acc \cup nxt, nxt)

\* the ids reachable from id by one or more 'depends on me' edges
ReachableFrom(map, id) == ReachFrom(map, Successors(map, {id}), Successors(map, {id}))

\* C1: get_all_dependent_tasks(task_id) terminates for every dependency map
\* and every starting id, maps with a cycle included.  The set of ids of
\* the next frontier is a function of the set of ids of this one and of the
\* map, so a call that terminates never begins an iteration with the ids it
\* began an earlier iteration with.
C1_ClosureTerminates ==
    closure.pc = "loop" => Range(closure.to_process) \notin closure.seen

\* C2: the list returned by get_all_dependent_tasks(task_id) holds exactly
\* the ids reachable from task_id by one or more 'depends on me' edges, each
\* of them once, also when an id is reachable by several paths.
C2_ClosureExactlyOnce ==
    closure.pc = "done" =>
        /\ NoDuplicates(closure.out)
        /\ Range(closure.out) = ReachableFrom(dependencyMap, closure.task_id)

----------------------------------------------------------------------------
(* Properties of the gestures                                              *)

\* the engine states of the specification: exactly one flag set
Dragging == drag.is_dragging /\ ~drag.is_resizing_left /\ ~drag.is_resizing_right

ResizingRight == drag.is_resizing_right /\ ~drag.is_dragging /\ ~drag.is_resizing_left

\* the ids of the tasks that declare a dependency on a task of S
DirectDependents(ts, S) ==
    {ts[i].id : i \in {j \in DOMAIN ts : /\ ts[j].dependencies.kind = "list"
                                         /\ Range(ts[j].dependencies.val) \cap S # {}}}

RECURSIVE WithDependents(_, _)
WithDependents(ts, acc) ==
    LET more == acc \cup DirectDependents(ts, acc)
    IN  IF more = acc THEN acc ELSE WithDependents(ts, more)

\* the snapped delta of the last pointer-move
SnappedDelta == get_snap_position(options, gesture.dx)

\* C3: during a drag gesture started on the body of a bar, after every
\* pointer-move the grabbed bar and every bar of a task that transitively
\* depends on the grabbed task is at its gesture-start x plus the snapped
\* delta and has its gesture-start width.
C3_DragMovesDependents ==
    (Dragging /\ gesture.last = "move") =>
        \A i \in DOMAIN Objs :
            (/\ Objs[i] # NullBar
             /\ Objs[i].id \in WithDependents(tasks, {drag.parent_bar_id})) =>
                /\ Objs[i].x = gesture.start[i].x + SnappedDelta
                /\ Objs[i].width = gesture.start[i].width

\* C4: during a right-handle resize gesture, after every pointer-move the
\* grabbed bar has its gesture-start width plus the snapped delta and its
\* gesture-start x; every other bar, dependent or not, has its gesture-start
\* x and width.
C4_ResizeRightOnlyGrabbedWidth ==
    (ResizingRight /\ gesture.last = "move") =>
        \A i \in DOMAIN Objs :
            Objs[i] # NullBar =>
                /\ Objs[i].x = gesture.start[i].x
                /\ Objs[i].width = gesture.start[i].width
                                       + (IF i = drag.bars[1] THEN SnappedDelta ELSE 0)

\* a right-handle resize by a nonzero snapped delta of a bar that has
\* dependents, on a chart with a bar that is no dependent
C4_ResizeRightWithDependents ==
    /\ ResizingRight
    /\ gesture.last = "move"
    /\ SnappedDelta # 0
    /\ ~drag.stale
    /\ Len(drag.bars) >= 2
    /\ \A k \in DOMAIN drag.bars : drag.bars[k] # 0
    /\ DOMAIN bars \ Range(drag.bars) # {}
    /\ bars[drag.bars[1]].width # gesture.start[drag.bars[1]].width

----------------------------------------------------------------------------
(* Properties of setup_tasks: dates                                        *)

\* the hours the all-day rule adds to an end at time t
AllDayHours(t) == IF t % HoursPerDay = 0 THEN HoursPerDay ELSE 0

StartOnly(raw) == raw.start.kind = "date" /\ raw.end.kind = "absent"

EndOnly(raw) == raw.start.kind = "absent" /\ raw.end.kind = "date"

Neither(raw) == raw.start.kind = "absent" /\ raw.end.kind = "absent"

\* C5: after setup_tasks every task has endResolved > startResolved.  Stated
\* for the tasks given with a start and an end that both parse, inverted
\* ones included.
C5_EndAfterStart ==
    \A i \in DOMAIN tasks :
        (rawTasks[i].start.kind = "date" /\ rawTasks[i].end.kind = "date") =>
            /\ tasks[i].startResolved.ok
            /\ tasks[i].endResolved.ok
            /\ tasks[i].endResolved.t > tasks[i].startResolved.t

C7_UnparseableStartRepaired ==
    \A i \in DOMAIN tasks :
        (rawTasks[i].start.kind = "bad" /\ rawTasks[i].end.kind = "absent") =>
            /\ tasks[i].invalid
            /\ tasks[i].startResolved = today
            /\ tasks[i].endResolved.ok
            /\ tasks[i].endResolved.t - today.t \in {2 * HoursPerDay, 3 * HoursPerDay}

\* C8: after setup_tasks, startResolved and endResolved of every task are
\* concrete points in time, whatever the raw start and end.
C8_ResolvedDatesConcrete ==
    \A i \in DOMAIN tasks : tasks[i].startResolved.ok /\ tasks[i].endResolved.ok

----------------------------------------------------------------------------
(* Properties of setup_tasks: dependencies                                 *)

\* the ids some task declares a dependency on
Declared(ts) ==
    UNION {Range(ts[i].dependencies.val) :
              i \in {j \in DOMAIN ts : ts[j].dependencies.kind = "list"}}

RECURSIVE DeclaringIds(_, _)
\* the ids of the tasks that declare d, in task order, once per declaration
DeclaringIds(ts, d) ==
    IF ts = <<>> THEN <<>>
    ELSE (IF Head(ts).dependencies.kind = "list"
          THEN [k \in 1..Len(SelectSeq(Head(ts).dependencies.val, LAMBDA x : x = d)) |->
                   Head(ts).id]
          ELSE <<>>) \o DeclaringIds(Tail(ts), d)

InverseIndex(ts) == [d \in Declared(ts) |-> DeclaringIds(ts, d)]

\* C9: a task whose dependencies field is absent, or neither a string nor a
\* list, resolves to an empty dependency list, and setup_tasks completes.
C9_AbsentDependenciesResolveEmpty ==
    /\ status # "threw_setup"
    /\ \A i \in DOMAIN tasks :
          rawTasks[i].dependencies.kind \notin {"string", "list"} =>
              tasks[i].dependencies = DepList(<<>>)

\* C10: after setup_tasks the dependency map is the inverse index of the
\* tasks' dependency lists: under every declared id the ids of the declaring
\* tasks in task order, no other key, nothing of an earlier task set.
C10_MapIsInverseIndex == dependencyMap = InverseIndex(tasks)

----------------------------------------------------------------------------
(* Properties of the view scale                                            *)

KnownViewModes == {"Quarter Day", "Half Day", "Day", "Week", "Month", "Year"}

\* the (stepHours, columnWidthPx) pairs of the view modes
ModePair(mode) ==
    CASE mode = "Quarter Day" -> [step |-> 6, column_width |-> 38]
      [] mode = "Half Day"    -> [step |-> 12, column_width |-> 38]
      [] mode = "Day"         -> [step |-> 24, column_width |-> 38]
      [] mode = "Week"        -> [step |-> 168, column_width |-> 140]
      [] mode = "Month"       -> [step |-> 720, column_width |-> 120]
      [] mode = "Year"        -> [step |-> 8760, column_width |-> 120]

\* the column boundary one step of the mode after d
OneStepAfter(mode, d) ==
    IF mode = "Year" THEN add(d, 1, "year")
    ELSE IF mode = "Month" THEN add(d, 1, "month")
    ELSE add(d, ModePair(mode).step, "hour")

\* C11: change_view_mode called with a mode that is none of the six view
\* modes reports an error and leaves options.view_mode, step and column_width
\* as they were before the call.
C11_UnknownModeKeepsScale ==
    (call.op = "change_view_mode" /\ call.mode \notin KnownViewModes) =>
        /\ call.logged # <<>>
        /\ options = call.before

\* C12: in every view mode and for every task set, dates starts at the scale
\* start, is strictly increasing, has every element in [ganttStart, ganttEnd)
\* and has consecutive elements exactly one step of the mode apart.
C12_DatesCoverScale ==
    options.view_mode \in KnownViewModes =>
        /\ dates # <<>>
        /\ dates[1] = ganttStart
        /\ \A i \in DOMAIN dates :
              ~DateLess(dates[i], ganttStart) /\ DateLess(dates[i], ganttEnd)
        /\ \A i \in 1..(Len(dates) - 1) :
              /\ DateLess(dates[i], dates[i + 1])
              /\ dates[i + 1] = OneStepAfter(options.view_mode, dates[i])

\* C13: after change_view_mode(mode) with one of the six view modes, step
\* and column_width are the pair of that mode whatever the mode before, and
\* dates is generated anew from the scale start, by calendar months in Month
\* mode, by calendar years in Year mode and by step hours otherwise.
C13_KnownModeSetsScale ==
    (call.op = "change_view_mode" /\ call.mode \in KnownViewModes) =>
        /\ options.step = ModePair(call.mode).step
        /\ options.column_width = ModePair(call.mode).column_width
        /\ dates # <<>>
        /\ dates[1] = ganttStart
        /\ \A i \in 1..(Len(dates) - 1) : dates[i + 1] = OneStepAfter(call.mode, dates[i])

\* the view mode changed from Day to Month: months of 28 and of 31 days
\* among the columns
C13_DayToMonth ==
    /\ call.op = "change_view_mode"
    /\ call.mode = "Month"
    /\ call.before.view_mode = "Day"
    /\ options.step = 720
    /\ options.column_width = 120
    /\ \E i, j \in 1..(Len(dates) - 1) :
          /\ dates[i + 1].t - dates[i].t = 28 * HoursPerDay
          /\ dates[j + 1].t - dates[j].t = 31 * HoursPerDay

----------------------------------------------------------------------------
(* Properties of the pointer-up handlers and of the gesture flags          *)

PointerUps == {"up", "up_outside"}

\* bar i is not where it was at the last pointer-down
Moved(i) ==
    /\ i \in DOMAIN gesture.start
    /\ Objs[i] # NullBar
    /\ Objs[i].x # gesture.start[i].x \/ Objs[i].width # gesture.start[i].width

\* the gesture flags that are set
ActiveFlags ==
    {f \in {"is_dragging", "is_resizing_left", "is_resizing_right"} : drag[f]}
        \cup (IF progress.is_resizing THEN {"is_resizing"} ELSE {})

\* C14: a gesture of a pointer-down on a bar or a handle and a pointer-up, no
\* pointer-move handled between them, calls neither date_changed nor
\* progress_changed for any bar.
C14_ZeroDeltaCommitsNothing ==
    (gesture.downs > 0 /\ gesture.last \in PointerUps /\ ~gesture.moved) =>
        /\ gesture.committed = <<>>
        /\ ~progress.changed

\* C15: at the pointer-up that ends a drag or a resize, inside the svg or
\* outside of it, date_changed is called for every bar the gesture moved.
C15_NonzeroDeltaCommitted ==
    gesture.last \in PointerUps =>
        \A i \in DOMAIN Objs : Moved(i) => Objs[i].id \in Range(gesture.committed)

\* C16: the width of every bar is non-negative in every state pointer events
\* lead to, a resize past the opposite edge of the bar included.
C16_WidthNonNegative ==
    /\ \A i \in DOMAIN bars : bars[i].width >= 0
    /\ \A i \in DOMAIN detached : detached[i].width >= 0

\* C18: at most one of is_dragging, is_resizing_left, is_resizing_right and
\* the is_resizing of the progress handle is set, whatever the pointer-downs,
\* pointer-moves and pointer-ups so far.
C18_OneGestureAtATime == Cardinality(ActiveFlags) <= 1

\* C19: after a pointer-up, inside the svg or outside of it, none of
\* is_dragging, is_resizing_left, is_resizing_right and the is_resizing of
\* the progress handle is set.
C19_IdleAfterPointerUp == gesture.last \in PointerUps => ActiveFlags = {}

----------------------------------------------------------------------------
(* Properties of make_arrows                                               *)

\* the arrow from the bar of the task with id d to the bar of task i
ArrowOf(ts, d, i) == NewArrow(get_task(ts, d), i)

\* the (task, dependency id) pairs whose id is that of a task
ResolvablePairs(ts) ==
    {<<i, d>> \in (DOMAIN ts) \X Declared(ts) :
        /\ ts[i].dependencies.kind = "list"
        /\ d \in Range(ts[i].dependencies.val)
        /\ get_task(ts, d) # 0}

\* C17: after a render that reached make_arrows there is exactly one arrow
\* for every task and every dependency id it declares that is the id of a
\* task, from the bar of that task to the bar of the declaring task, and no
\* other arrow; ids of no task alone raise no error.
C17_ArrowsJoinBars ==
    status \in {"ok", "threw_render"} =>
        /\ \A p \in ResolvablePairs(tasks) :
              Cardinality({k \in DOMAIN arrows : arrows[k] = ArrowOf(tasks, p[2], p[1])}) = 1
        /\ \A k \in DOMAIN arrows :
              \E p \in ResolvablePairs(tasks) : arrows[k] = ArrowOf(tasks, p[2], p[1])
        /\ ResolvablePairs(tasks) = {} => status = "ok"

----------------------------------------------------------------------------
(* Properties of the left-handle resize                                    *)

ResizingLeft == drag.is_resizing_left /\ ~drag.is_dragging /\ ~drag.is_resizing_right

\* C20: during a left-handle resize, after every pointer-move the grabbed
\* bar is at its gesture-start x plus the snapped delta with its gesture-start
\* width minus the snapped delta, and every other bar of a task that
\* transitively depends on the grabbed task is at its gesture-start x plus
\* the snapped delta with its gesture-start width.
C20_ResizeLeftKeepsRightEdge ==
    (ResizingLeft /\ gesture.last = "move") =>
        \A i \in DOMAIN Objs :
            (/\ Objs[i] # NullBar
             /\ Objs[i].id \in WithDependents(tasks, {drag.parent_bar_id})) =>
                /\ Objs[i].x = gesture.start[i].x + SnappedDelta
                /\ Objs[i].width =
                       gesture.start[i].width
                           - (IF Objs[i].id = drag.parent_bar_id THEN SnappedDelta ELSE 0)

----------------------------------------------------------------------------
(* Properties of a sequence of pointer-moves                               *)

\* the captured bars the forEach of a handler reaches: those before the
\* first undefined entry
BeforeHole(refs) == {refs[k] : k \in {k \in DOMAIN refs : \A j \in 1..k : refs[j] # 0}}

\* whether the branch taken for a captured bar sets its x
ShiftsX(d) == d.is_resizing_left \/ (~d.is_resizing_right /\ d.is_dragging)

\* what the branch taken adds to the width of the captured bar with that id
WidthShift(d, id, f) ==
    IF d.parent_bar_id # id THEN 0
    ELSE IF d.is_resizing_left THEN -f
    ELSE IF d.is_resizing_right THEN f
    ELSE 0

\* C21: within a gesture, after every pointer-move the x and the width of
\* every bar are those of the snapshot of the last pointer-down plus what the
\* active branch makes of the snapped delta of the current pointer offset
\* alone, whatever the pointer-moves before; at a snapped delta of zero every
\* bar has its gesture-start geometry again.
C21_GeometryFromSnapshot ==
    (action_in_progress(drag) /\ gesture.last = "move") =>
        \A i \in DOMAIN Objs :
            Objs[i] # NullBar =>
                LET reached == i \in BeforeHole(drag.bars)
                IN  /\ Objs[i].x =
                           gesture.start[i].x
                               + (IF reached /\ ShiftsX(drag) THEN SnappedDelta ELSE 0)
                    /\ Objs[i].width =
                           gesture.start[i].width
                               + (IF reached THEN WidthShift(drag, Objs[i].id, SnappedDelta)
                                  ELSE 0)

\* a left resize of a bar with a dependent whose pointer is back at the
\* anchor after a pointer-move with a nonzero snapped delta
C21_BackAtAnchor ==
    /\ gesture.last = "move"
    /\ gesture.away
    /\ gesture.dx = 0
    /\ ResizingLeft
    /\ Len(drag.bars) >= 2
    /\ \A k \in DOMAIN drag.bars : drag.bars[k] # 0
    /\ \A k \in DOMAIN drag.bars :
          /\ Objs[drag.bars[k]].x = gesture.start[drag.bars[k]].x
          /\ Objs[drag.bars[k]].width = gesture.start[drag.bars[k]].width

----------------------------------------------------------------------------
(* Properties of the progress handle                                       *)

\* a gesture begun on a progress handle, the pointer moved since
ProgressMoving ==
    gesture.target = "progress" /\ progress.is_resizing /\ gesture.last = "move"

\* C22: during a gesture begun on a progress handle, after every pointer-move
\* the width of the progress of the grabbed bar is at least 0 and at most the
\* width of that bar, and every bar has the x and the width it had at the
\* pointer-down.
C22_ProgressStaysInBar ==
    ProgressMoving =>
        /\ progress.width >= 0
        /\ progress.width <= Objs[progress.bar].width
        /\ \A i \in DOMAIN Objs :
              Objs[i] # NullBar =>
                  /\ Objs[i].x = gesture.start[i].x
                  /\ Objs[i].width = gesture.start[i].width

----------------------------------------------------------------------------
(* A drag in each view mode, the pointer moved to every offset near the    *)
(* anchor                                                                  *)

\* the offsets of the pointer-moves: up to 60 pixels on either side of the
\* anchor, more than one and a half columns of the widest snap unit
SnapOffsets == 140..260

\* change_view_mode(mode) before the gesture
ChangeViewModeSnap ==
    /\ gesture.downs = 0
    /\ \E mode \in KnownViewModes : ChangeViewMode(mode)

\* mousedown on the first bar
MouseDownSnap ==
    /\ gesture.downs = 0
    /\ \E o \in PointerDownOffsets : MouseDown(1, "bar-wrapper", o)

MouseMoveSnap == \E o \in SnapOffsets : MouseMove(o)

NextSnap == ChangeViewModeSnap \/ MouseDownSnap \/ MouseMoveSnap

SpecSnap == Init /\ [][NextSnap]_vars

----------------------------------------------------------------------------
(* Properties of get_snap_position                                         *)

\* the snap unit of the view mode
SnapUnit(opts) ==
    IF view_is(opts, {"Week"}) THEN opts.column_width \div 7
    ELSE IF view_is(opts, {"Month"}) THEN opts.column_width \div 30
    ELSE opts.column_width

Magnitude(n) == IF n < 0 THEN -n ELSE n

\* the multiples of u around dx
MultiplesNear(dx, u) ==
    {k * u : k \in (-(Magnitude(dx) \div u) - 1)..((Magnitude(dx) \div u) + 1)}

\* the multiple of u nearest to dx, of two equally near the one of larger
\* magnitude
NearestMultiple(dx, u) ==
    CHOOSE m \in MultiplesNear(dx, u) :
        \A n \in MultiplesNear(dx, u) :
            \/ Magnitude(dx - m) < Magnitude(dx - n)
            \/ Magnitude(dx - m) = Magnitude(dx - n) /\ Magnitude(m) >= Magnitude(n)

\* C23: the delta the pointer-move handler gets from get_snap_position for
\* the pixel delta dx, positive, zero or negative, is the multiple of the snap
\* unit of the view mode nearest to dx, of two equally near multiples the one
\* of larger magnitude.
C23_SnapToNearest ==
    (drag.is_dragging /\ gesture.last = "move") =>
        Objs[drag.bars[1]].finaldx = NearestMultiple(gesture.dx, SnapUnit(options))

----------------------------------------------------------------------------
(* Properties of what the closures of the handlers keep                    *)

\* C24: a pointer-up inside the svg that no pointer-down on a bar or a handle
\* preceded since the pointer-up before it (or since the chart was built)
\* calls date_changed for no bar.
C24_CommitOncePerGesture ==
    (gesture.last = "up" /\ gesture.repeat) => gesture.committed = <<>>

\* C25: no pointer-up calls progress_changed when progress_changed was called
\* already since the last pointer-down on a progress handle.
C25_ProgressChangedOnce == ~progress.again

\* C26: no pointer-move moves and no pointer-up commits a Bar object that a
\* render has replaced in this.bars.
C26_HandlersUseCurrentBars == ~gesture.previous

====
